---- MODULE Spec2Model ----
(***************************************************************************)
(* A model of the AsciiImage component                                     *)
(* (src/src/lib/components/AsciiImage.svelte): the image-load callback     *)
(* that builds the glyph grid, the hover handlers, the scramble-to-settle  *)
(* animation driven by requestAnimationFrame, and the teardown cleanup.    *)
(*                                                                         *)
(* Conventions.                                                            *)
(*  - Characters are one-character strings; an array of characters is a    *)
(*    sequence.  Cell indices keep the source's 0-based numbering, so the  *)
(*    glyph of cell i is asciiChars[i + 1].                                *)
(*  - Time is integral.  performance.now() reads the variable now; a frame *)
(*    callback receives the clock reading of its frame as currentTime.     *)
(*    elapsed / settleDuration * n is computed exactly (no rounding).      *)
(*  - A data URL is modelled by what it encodes: "" is the empty sequence  *)
(*    and canvas.toDataURL() is the one-element sequence holding the       *)
(*    canvas content.                                                      *)
(*  - requestAnimationFrame handles are opaque: a new handle differs from  *)
(*    every handle still pending and from the one animationFrame holds.    *)
(***************************************************************************)
EXTENDS Integers, Sequences, FiniteSets, TLC

\* ------------------------------------------------------------------ bounds
\* The clock stops at MaxTime.
MaxTime == 4

\* ------------------------------------------------------------------- props
\* charSet prop: a three-glyph ramp, darkest first; like the default ramp it
\* starts with a space and ends with "@".
CharSet == <<" ", ".", "@">>

\* resolution prop, default value.
Resolution == 4

\* settleDuration prop, scaled to the model's clock.
SettleDuration == 2

\* The literal appended to the scramble alphabet.
Punctuation == <<"!", "@", "#", "$", "%", "^", "&", "*", "<", ">", "[", "]", "{", "}">>

\* animationFrame's initial value; a falsy handle.
NULL == 0

IsWhitespace(c) == c \in {" ", "\t", "\n", "\r", "\f"}

\* A scramble alphabet that keeps the whitespace of charSet.
ScrambleCharsUnfiltered == CharSet \o Punctuation

\* const scrambleChars = charSet.replace(/\s/g, "") + "!@#$%^&*<>[]{}"
ScrambleChars == SelectSeq(CharSet, LAMBDA c : ~IsWhitespace(c)) \o Punctuation

\* getRandomChar(): the characters Math.random() can select.
GetRandomChar == {ScrambleChars[k] : k \in 1..Len(ScrambleChars)}

\* ------------------------------------------------------------------ images
Px(r, g, b, a) == [r |-> r, g |-> g, b |-> b, a |-> a]

\* The rasters an <img> may decode to: width, height and the pixel buffer
\* getImageData returns after the raster was drawn onto the cols x rows canvas.
Images ==
  { [width |-> 3,  height |-> 7,  pixels |-> << >>],
    [width |-> 12, height |-> 8,
     pixels |-> <<Px(128, 128, 128, 255), Px(90, 10, 200, 0), Px(255, 255, 255, 255)>>],
    [width |-> 8,  height |-> 8,
     pixels |-> <<Px(255, 255, 255, 0), Px(10, 20, 30, 127)>>],
    [width |-> 4,  height |-> 15,
     pixels |-> <<Px(0, 0, 0, 255), Px(128, 128, 128, 128)>>] }

\* asciiCols = Math.floor(imgWidth / resolution)
Cols(w) == w \div Resolution

\* A row count that takes cells to be square: Math.floor(imgHeight / resolution).
RowsSquare(h) == h \div Resolution

\* asciiRows = Math.floor(imgHeight / (resolution * 1.8))
Rows(h) == (10 * h) \div (18 * Resolution)

\* An index rounded to nearest: Math.round(brightness * (charSet.length - 1)).
CharIndexRound(p) ==
  ((299 * p.r + 587 * p.g + 114 * p.b) * (Len(CharSet) - 1) + 127500) \div (255 * 1000)

\* charIndex = Math.floor(brightness * (charSet.length - 1)), with
\* brightness = (0.299 r + 0.587 g + 0.114 b) / 255
\* The quotient is taken exactly; in doubles the weighted sum of a pixel whose
\* brightness is exactly 1/2 can fall just below it (r, g, b = 0, 204, 68).
CharIndex(p) ==
  ((299 * p.r + 587 * p.g + 114 * p.b) * (Len(CharSet) - 1)) \div (255 * 1000)

\* A glyph mapping that blanks fully transparent pixels only: if (a === 0).
GlyphTransparentOnly(p) == IF p.a = 0 THEN " " ELSE CharSet[CharIndex(p) + 1]

\* The glyph pushed for one sampled pixel.
Glyph(p) == IF p.a < 128 THEN " " ELSE CharSet[CharIndex(p) + 1]

\* The asciiChars array built by img.onload.
BuildAsciiChars(img) ==
  [k \in 1..(Cols(img.width) * Rows(img.height)) |-> Glyph(img.pixels[k])]

\* renderAsciiToCanvas: the cells drawn on the ascii canvas.
RenderAsciiToCanvas(chars, cols, rows) == [k \in 1..(cols * rows) |-> chars[k]]

\* asciiCanvas.toDataURL()
ToDataURL(canvas) == <<canvas>>

EmptyUrl == << >>

\* ------------------------------------------------------------------- state
VARIABLES
  now,                \* performance.now()
  loadPending,        \* the Image created by generateAscii has not settled yet
  imageLoaded,
  isHovering,
  destroyed,          \* the onMount cleanup has run
  animationFrame,
  asciiChars,
  asciiCols,
  asciiRows,
  asciiDataUrl,
  displayedAsciiUrl,
  asciiCanvas,        \* the cells last drawn on the ascii canvas
  settledIndices,
  rafQueue,           \* the host's list of animation frame callbacks
  settleDuration,     \* the settleDuration prop
  src,                \* the src prop: the raster it names
  imgSrc,             \* img.src of the Image generateAscii created
  windowDims,         \* window.__asciiImgWidth and __asciiImgHeight (0: undefined)
  asciiCanvasSize,    \* asciiCanvas.width and asciiCanvas.height
  lastEvent,          \* history: the last handler that ran and what it met
  checkout,           \* the /api/checkout endpoint and the provider behind it
  webhook,            \* the /api/webhooks/stripe endpoint and what it caused
  productPage,        \* the shop/[slug] page: isLoading and its requests
  gallery             \* a GalleryModal: index and the drag state

\* The AsciiImage component and its host.
asciiVars == <<now, loadPending, imageLoaded, isHovering, destroyed, animationFrame,
               asciiChars, asciiCols, asciiRows, asciiDataUrl, displayedAsciiUrl,
               asciiCanvas, settledIndices, rafQueue, settleDuration, src, imgSrc,
               windowDims, asciiCanvasSize, lastEvent>>

\* The endpoints and the other components of the site.
siteVars == <<checkout, webhook, productPage, gallery>>

vars == <<asciiVars, siteVars>>

\* ------------------------------------------------- the site at start-up
\* Checkout sessions the endpoints refer to.
Sessions == {"cs_1", "cs_2"}

\* /api/checkout before any request: no Stripe Checkout Session created, no
\* response sent (status 0).
CheckoutInit ==
  checkout = [sessions |-> 0, requests |-> 0, status |-> 0, created |-> 0,
              body |-> [productId |-> "", title |-> "", price |-> 0, image |-> ""]]

\* /api/webhooks/stripe before any delivery: nothing retrieved, no email sent.
WebhookInit ==
  webhook = [deliveries |-> 0, status |-> 0,
             last |-> [signature |-> "missing", type |-> "", session |-> "cs_1"],
             retrieved |-> [s \in Sessions |-> 0],
             customerEmails |-> [s \in Sessions |-> 0],
             adminEmails |-> [s \in Sessions |-> 0]]

\* data.product of the product pages: a print on sale, a free one, a sold-out one.
Products ==
  { [slug |-> "print-1", title |-> "Print", price |-> 25, inStock |-> TRUE],
    [slug |-> "print-2", title |-> "Gift", price |-> 0, inStock |-> TRUE],
    [slug |-> "print-3", title |-> "Rare", price |-> 25, inStock |-> FALSE] }

\* The product page as rendered for product p: let isLoading = $state(false),
\* no request sent.
PageOf(p) ==
  [product |-> p, isLoading |-> FALSE, inFlight |-> 0, sent |-> 0,
   alerts |-> 0, location |-> "product"]

PageInit ==
  productPage = PageOf([slug |-> "print-1", title |-> "Print", price |-> 25,
                        inStock |-> TRUE])

\* A GalleryModal opened on image i of n: let index = $state(initialIndex).
\* last, before and flip record the latest navigation: which of next and prev
\* it was, the index it started from, and a bit it toggles.
GalleryOf(n, i) ==
  [length |-> n, index |-> i, offsetX |-> 0, isDragging |-> FALSE, startX |-> 0,
   closed |-> FALSE, last |-> "open", before |-> i, flip |-> FALSE]

GalleryInit == gallery = GalleryOf(1, 0)

SiteInit == CheckoutInit /\ WebhookInit /\ PageInit /\ GalleryInit

\* What no handler of the component assigns: the props and the Image's src.
propVars == <<settleDuration, src, imgSrc>>

gridVars == <<asciiChars, asciiCols, asciiRows, asciiDataUrl, imageLoaded, loadPending>>

\* The history record of one handler run: which handler (op), how it ended
\* (result), whether a frame callback was pending when it began (live), how
\* many cells were settled when it began (settledBefore), the time it read
\* (at), and whether the handler before it was the same one (again).
Event(op, result, at) ==
  [op |-> op, result |-> result, live |-> rafQueue # {},
   settledBefore |-> Cardinality(settledIndices), at |-> at,
   again |-> lastEvent.op = op]

\* The size pair a window global or a canvas holds.
Dims(w, h) == [width |-> w, height |-> h]

\* const width = window.__asciiImgWidth || 800, height = ... || 1000
RenderDims(w) ==
  Dims(IF w.width # 0 THEN w.width ELSE 800, IF w.height # 0 THEN w.height ELSE 1000)

\* The component right after onMount ran generateAscii at time t, with
\* settleDuration d: the Image is loading src, the canvases are new.
MountedOn(t, d, img) ==
  /\ now = t
  /\ settleDuration = d
  /\ src = img
  /\ imgSrc = src
  /\ windowDims = Dims(0, 0)
  /\ asciiCanvasSize = Dims(300, 150)
  /\ loadPending = TRUE
  /\ imageLoaded = FALSE
  /\ isHovering = FALSE
  /\ destroyed = FALSE
  /\ animationFrame = NULL
  /\ asciiChars = << >>
  /\ asciiCols = 0
  /\ asciiRows = 0
  /\ asciiDataUrl = EmptyUrl
  /\ displayedAsciiUrl = EmptyUrl
  /\ asciiCanvas = << >>
  /\ settledIndices = {}
  /\ rafQueue = {}
  /\ lastEvent = [op |-> "mount", result |-> "", live |-> FALSE,
                  settledBefore |-> 0, at |-> t, again |-> FALSE]

Mounted(t, d) == \E img \in Images : MountedOn(t, d, img)

Init == Mounted(0, SettleDuration) /\ SiteInit

\* ------------------------------------------------- host: animation frames
Handles(q) == {e.id : e \in q}

\* requestAnimationFrame's return value.
NewHandle(q, af) ==
  CHOOSE h \in 1..(Cardinality(Handles(q) \cup {af}) + 1) :
    /\ h \notin Handles(q) \cup {af}
    /\ \A k \in 1..(h - 1) : k \in Handles(q) \cup {af}

\* requestAnimationFrame(animate) for the run whose closure holds startTime
\* and indicesToSettle.
RequestAnimationFrame(q, h, startTime, indicesToSettle) ==
  q \cup {[id |-> h, startTime |-> startTime, indicesToSettle |-> indicesToSettle]}

\* cancelAnimationFrame(h)
CancelAnimationFrame(q, h) == {e \in q : e.id # h}

\* ------------------------------------------------------------ image load
\* Whether sourceCanvas still refers to its canvas when img.onload reads it.
\* While the component is mounted it does; on teardown the framework clears
\* what bind:this had set, and a callback that runs later finds either the
\* cleared reference or, before the clearing has taken effect, the canvas.
SourceCanvasBound == IF destroyed THEN BOOLEAN ELSE {TRUE}

\* img.onload: registered by generateAscii and never removed, it runs when the
\* image has decoded, whether or not the component is still mounted.
OnLoad ==
  /\ loadPending
  /\ loadPending' = FALSE
  /\ \E bound \in SourceCanvasBound :
       IF ~bound
       THEN \* sourceCanvas.getContext throws on the cleared reference.
            /\ lastEvent' = Event("load", "unbound", now)
            /\ UNCHANGED <<asciiCols, asciiRows, windowDims, asciiChars, asciiCanvas,
                           asciiCanvasSize, asciiDataUrl, imageLoaded>>
       ELSE /\ asciiCols' = Cols(imgSrc.width)
            /\ asciiRows' = Rows(imgSrc.height)
            /\ windowDims' = Dims(imgSrc.width, imgSrc.height)
            /\ IF asciiCols' * asciiRows' = 0
               THEN \* getImageData(0, 0, asciiCols, asciiRows) throws on an empty
                    \* rectangle: the rest of the handler does not run.
                    /\ lastEvent' = Event("load", "throw", now)
                    /\ UNCHANGED <<asciiChars, asciiCanvas, asciiCanvasSize,
                                   asciiDataUrl, imageLoaded>>
               ELSE /\ asciiChars' = BuildAsciiChars(imgSrc)
                    /\ asciiCanvasSize' = RenderDims(windowDims')
                    /\ asciiCanvas' =
                         RenderAsciiToCanvas(asciiChars', asciiCols', asciiRows')
                    /\ asciiDataUrl' = ToDataURL(asciiCanvas')
                    /\ imageLoaded' = TRUE
                    /\ lastEvent' = Event("load", "", now)
  /\ UNCHANGED <<now, isHovering, destroyed, animationFrame, displayedAsciiUrl,
                 settledIndices, rafQueue, propVars, siteVars>>

\* The image never decodes: no handler is registered for it, onload never runs.
ImgError ==
  /\ loadPending
  /\ loadPending' = FALSE
  /\ lastEvent' = Event("error", "", now)
  /\ UNCHANGED <<now, imageLoaded, isHovering, destroyed, animationFrame, asciiChars,
                 asciiCols, asciiRows, asciiDataUrl, displayedAsciiUrl, asciiCanvas,
                 settledIndices, rafQueue, propVars, windowDims, asciiCanvasSize, siteVars>>

\* ------------------------------------------------- startScrambleAnimation
\* The loop that collects the indices i with asciiChars[i] !== " ".
NonBlankIndices(chars) ==
  LET idx == [k \in 1..Len(chars) |-> k - 1]
  IN  SelectSeq(idx, LAMBDA i : chars[i + 1] # " ")

\* A swap written without the temporary: a[i] = a[j]; a[j] = a[i].
SwapOverwrite(arr, i, j) == [arr EXCEPT ![i + 1] = arr[j + 1]]

\* [a[i], a[j]] = [a[j], a[i]] on 0-based positions.
Swap(arr, i, j) ==
  [arr EXCEPT ![i + 1] = arr[j + 1], ![j + 1] = arr[i + 1]]

\* The values of j = Math.floor(Math.random() * (i + 1)) over the whole loop:
\* one j in 0..i for every i in 1..n-1.
ShuffleChoices(n) == {js \in [1..(n - 1) -> 0..(n - 1)] : \A i \in 1..(n - 1) : js[i] <= i}

RECURSIVE ShuffleFrom(_, _, _)
\* for (let i = ...; i > 0; i--) swap(i, j)
ShuffleFrom(arr, i, js) ==
  IF i > 0 THEN ShuffleFrom(Swap(arr, i, js[i]), i - 1, js) ELSE arr

Shuffle(arr, js) == ShuffleFrom(arr, Len(arr) - 1, js)

\* A start that leaves the previous run's callback in the list.
CancelPriorSkipped(q, af) == q

\* if (animationFrame) cancelAnimationFrame(animationFrame)
CancelPrior(q, af) == IF af # NULL THEN CancelAnimationFrame(q, af) ELSE q

\* A start that keeps the previous run's settled set.
NewSettledResumed(old) == old

\* settledIndices = new Set()
NewSettled(old) == {}

\* const startTime = performance.now()
StartTime(t) == t

\* ----------------------------------------------------------------- animate
\* elapsed = currentTime - startTime
Elapsed(currentTime, startTime) == currentTime - startTime

\* progress = Math.min(elapsed / settleDuration, 1); progress >= 1.  With a
\* zero settleDuration the quotient is Infinity, NaN or -Infinity; with a
\* negative one the division reverses the order.
ProgressDone(elapsed) ==
  IF settleDuration > 0 THEN elapsed >= settleDuration
  ELSE IF settleDuration = 0 THEN elapsed > 0
  ELSE elapsed <= settleDuration

\* progress < 1; false for NaN as progress >= 1 is.
ProgressBelowOne(elapsed) ==
  IF settleDuration > 0 THEN elapsed < settleDuration
  ELSE IF settleDuration = 0 THEN elapsed < 0
  ELSE elapsed > settleDuration

\* An off-by-one count: Math.floor(progress * (length - 1)).
ShouldBeSettledShort(elapsed, n) ==
  IF elapsed >= settleDuration THEN n - 1 ELSE (elapsed * (n - 1)) \div settleDuration

\* A count rounded up: Math.ceil(progress * length).
ShouldBeSettledCeil(elapsed, n) ==
  IF elapsed >= settleDuration THEN n
  ELSE (elapsed * n + settleDuration - 1) \div settleDuration

\* shouldBeSettled = Math.floor(progress * indicesToSettle.length).  A NaN or
\* -Infinity count makes both loop tests false, as the count 0 does.
ShouldBeSettled(elapsed, n) ==
  IF ProgressDone(elapsed) THEN n
  ELSE IF settleDuration > 0 THEN (elapsed * n) \div settleDuration
  ELSE IF settleDuration = 0 THEN 0
  ELSE 0 - (((elapsed * n) + (0 - settleDuration) - 1) \div (0 - settleDuration))

\* A settle step that rebuilds the set from the count instead of adding to it.
SettleRebuilt(settled, indicesToSettle, shouldBeSettled) ==
  {indicesToSettle[k] : k \in 1..(IF shouldBeSettled < Len(indicesToSettle)
                                   THEN shouldBeSettled ELSE Len(indicesToSettle))}

RECURSIVE Settle(_, _, _)
\* while (size < shouldBeSettled && size < length) settledIndices.add(indicesToSettle[size])
Settle(settled, indicesToSettle, shouldBeSettled) ==
  IF /\ Cardinality(settled) < shouldBeSettled
     /\ Cardinality(settled) < Len(indicesToSettle)
  THEN Settle(settled \cup {indicesToSettle[Cardinality(settled) + 1]},
              indicesToSettle, shouldBeSettled)
  ELSE settled

\* The frames the currentChars loop can build: blanks stay blank, settled cells
\* show their glyph, every other cell shows a fresh getRandomChar().
CurrentChars(chars, settled) ==
  LET open == {i \in 0..(Len(chars) - 1) : chars[i + 1] # " " /\ i \notin settled}
  IN  { [k \in 1..Len(chars) |->
           IF chars[k] = " " THEN " "
           ELSE IF (k - 1) \in settled THEN chars[k]
           ELSE rnd[k - 1]] : rnd \in [open -> GetRandomChar] }

\* A re-schedule test that forgets progress: if (isHovering).
KeepsAnimatingWhileHovering(elapsed, hovering) == hovering

\* if (progress < 1 && isHovering)
KeepsAnimating(elapsed, hovering) == ProgressBelowOne(elapsed) /\ hovering

\* One frame callback of the run that owns entry e, called with currentTime.
Animate(e, currentTime) ==
  LET elapsed == Elapsed(currentTime, e.startTime)
      should  == ShouldBeSettled(elapsed, Len(e.indicesToSettle))
      settled == Settle(settledIndices, e.indicesToSettle, should)
      q       == rafQueue \ {e}
  IN  /\ settledIndices' = settled
      /\ \E frame \in CurrentChars(asciiChars, settled) :
           /\ asciiCanvasSize' = RenderDims(windowDims)
           /\ asciiCanvas' = RenderAsciiToCanvas(frame, asciiCols, asciiRows)
           /\ IF KeepsAnimating(elapsed, isHovering)
              THEN /\ displayedAsciiUrl' = ToDataURL(asciiCanvas')
                   /\ animationFrame' = NewHandle(q, animationFrame)
                   /\ rafQueue' = RequestAnimationFrame(q, animationFrame',
                                     e.startTime, e.indicesToSettle)
                   /\ lastEvent' = Event("tick", "more", currentTime)
              ELSE /\ displayedAsciiUrl' =
                        IF ProgressDone(elapsed) THEN asciiDataUrl
                        ELSE ToDataURL(asciiCanvas')
                   /\ animationFrame' = animationFrame
                   /\ rafQueue' = q
                   /\ lastEvent' = Event("tick", IF ProgressDone(elapsed) THEN "done"
                                                 ELSE "halt", currentTime)
      /\ UNCHANGED <<now, isHovering, destroyed, gridVars, propVars, windowDims,
                     siteVars>>

\* The host runs a pending frame callback; its timestamp is the clock reading.
Tick == \E e \in rafQueue : Animate(e, now)

\* The host runs a pending frame callback with an arbitrary timestamp.
TickAnyTime == \E e \in rafQueue : \E t \in 0..MaxTime : Animate(e, t)

\* ------------------------------------------------- a frame that cannot render
\* One frame callback during which asciiCanvas.getContext("2d") returns null:
\* renderAsciiToCanvas has resized (and so cleared) the canvas and returns "",
\* and animate goes on with that value.
AnimateNoContext(e, currentTime) ==
  LET elapsed == Elapsed(currentTime, e.startTime)
      should  == ShouldBeSettled(elapsed, Len(e.indicesToSettle))
      settled == Settle(settledIndices, e.indicesToSettle, should)
      q       == rafQueue \ {e}
  IN  /\ settledIndices' = settled
      /\ asciiCanvasSize' = RenderDims(windowDims)
      /\ asciiCanvas' = << >>
      /\ IF KeepsAnimating(elapsed, isHovering)
         THEN /\ displayedAsciiUrl' = EmptyUrl
              /\ animationFrame' = NewHandle(q, animationFrame)
              /\ rafQueue' = RequestAnimationFrame(q, animationFrame',
                                e.startTime, e.indicesToSettle)
         ELSE /\ displayedAsciiUrl' =
                   IF ProgressDone(elapsed) THEN asciiDataUrl ELSE EmptyUrl
              /\ animationFrame' = animationFrame
              /\ rafQueue' = q
      /\ lastEvent' = Event("tick", "nocontext", currentTime)
      /\ UNCHANGED <<now, isHovering, destroyed, gridVars, propVars, windowDims,
                     siteVars>>

TickNoContext == \E e \in rafQueue : AnimateNoContext(e, now)

\* One frame callback during which asciiCanvas.toDataURL() throws: the frame
\* has been drawn, the exception leaves animate before displayedAsciiUrl is
\* assigned and before the next frame is requested.
AnimateThrows(e, currentTime) ==
  LET elapsed == Elapsed(currentTime, e.startTime)
      should  == ShouldBeSettled(elapsed, Len(e.indicesToSettle))
      settled == Settle(settledIndices, e.indicesToSettle, should)
  IN  /\ settledIndices' = settled
      /\ asciiCanvasSize' = RenderDims(windowDims)
      /\ \E frame \in CurrentChars(asciiChars, settled) :
           asciiCanvas' = RenderAsciiToCanvas(frame, asciiCols, asciiRows)
      /\ rafQueue' = rafQueue \ {e}
      /\ lastEvent' = Event("tick", "throw", currentTime)
      /\ UNCHANGED <<now, isHovering, destroyed, gridVars, propVars, windowDims,
                     displayedAsciiUrl, animationFrame, siteVars>>

TickThrows == \E e \in rafQueue : AnimateThrows(e, now)

\* ------------------------------------------------------------ the handlers
\* A run started at time t can reach progress 1 before the clock stops.
CanFinish(t) == t + settleDuration <= MaxTime

\* A start that has no empty-grid guard.
NothingToAnimateNever(chars) == FALSE

\* if (!asciiChars.length) return
NothingToAnimate(chars) == Len(chars) = 0

\* startScrambleAnimation()
StartScrambleAnimation ==
  IF NothingToAnimate(asciiChars)
  THEN /\ lastEvent' = Event("enter", "unloaded", now)
       /\ UNCHANGED <<animationFrame, settledIndices, rafQueue>>
  ELSE /\ CanFinish(now)
       /\ LET q    == CancelPrior(rafQueue, animationFrame)
              base == NonBlankIndices(asciiChars)
          IN  /\ settledIndices' = NewSettled(settledIndices)
              /\ animationFrame' = NewHandle(q, animationFrame)
              /\ \E js \in ShuffleChoices(Len(base)) :
                   rafQueue' = RequestAnimationFrame(q, animationFrame',
                                  StartTime(now), Shuffle(base, js))
              /\ lastEvent' = Event("enter", "start", now)

\* A stop that resets the handle without cancelling the callback.
StopAnimationForgets(af, q) == [animationFrame |-> NULL, rafQueue |-> q]

\* A stop that cancels only when no handle is held (inverted test).
StopAnimationInverted(af, q) ==
  IF af = NULL
  THEN [animationFrame |-> NULL, rafQueue |-> CancelAnimationFrame(q, af)]
  ELSE [animationFrame |-> af, rafQueue |-> q]

\* stopAnimation(): the handle and the callback list it leaves.
StopAnimation(af, q) ==
  IF af # NULL
  THEN [animationFrame |-> NULL, rafQueue |-> CancelAnimationFrame(q, af)]
  ELSE [animationFrame |-> af, rafQueue |-> q]

HandleMouseEnter ==
  /\ ~destroyed
  /\ isHovering' = TRUE
  /\ StartScrambleAnimation
  /\ UNCHANGED <<now, destroyed, gridVars, displayedAsciiUrl, asciiCanvas,
                 propVars, windowDims, asciiCanvasSize, siteVars>>

HandleMouseLeave ==
  /\ ~destroyed
  /\ isHovering' = FALSE
  /\ LET s == StopAnimation(animationFrame, rafQueue)
     IN  /\ animationFrame' = s.animationFrame
         /\ rafQueue' = s.rafQueue
  /\ lastEvent' = Event("leave", "", now)
  /\ UNCHANGED <<now, destroyed, gridVars, displayedAsciiUrl, asciiCanvas,
                 settledIndices, propVars, windowDims, asciiCanvasSize, siteVars>>

\* A cleanup that cancels nothing.
CleanupMissing(q, af) == q

\* The function onMount returns: if (animationFrame) cancelAnimationFrame(animationFrame)
Cleanup(q, af) == IF af # NULL THEN CancelAnimationFrame(q, af) ELSE q

\* The component is destroyed: its cleanup runs and no pointer event reaches it again.
Destroy ==
  /\ ~destroyed
  /\ destroyed' = TRUE
  /\ rafQueue' = Cleanup(rafQueue, animationFrame)
  /\ lastEvent' = Event("destroy", "", now)
  /\ UNCHANGED <<now, isHovering, gridVars, animationFrame, displayedAsciiUrl,
                 asciiCanvas, settledIndices, propVars, windowDims, asciiCanvasSize,
                 siteVars>>

\* Time passes.
AdvanceClock ==
  /\ now < MaxTime
  /\ now' = now + 1
  /\ lastEvent' = Event("clock", "", now)
  /\ UNCHANGED <<loadPending, imageLoaded, isHovering, destroyed, animationFrame,
                 asciiChars, asciiCols, asciiRows, asciiDataUrl, displayedAsciiUrl,
                 asciiCanvas, settledIndices, rafQueue, propVars, windowDims,
                 asciiCanvasSize, siteVars>>

\* ------------------------------------------------------------ the template
\* An overlay block that tests the pointer alone: {#if isHovering}.
OverlayShownOnHover == isHovering

\* {#if imageLoaded && isHovering}: the overlay <img> is in the document.
OverlayShown == imageLoaded /\ isHovering

\* src={displayedAsciiUrl || asciiDataUrl}: what the overlay <img> shows.
Overlay == IF displayedAsciiUrl # EmptyUrl THEN displayedAsciiUrl ELSE asciiDataUrl

\* visibility: {isHovering && imageLoaded ? 'hidden' : 'visible'} on the original.
OriginalVisible == ~(isHovering /\ imageLoaded)

Next ==
  \/ OnLoad
  \/ ImgError
  \/ HandleMouseEnter
  \/ HandleMouseLeave
  \/ Tick
  \/ Destroy
  \/ AdvanceClock

Spec == Init /\ [][Next]_vars

\* The same component when frame callbacks may be handed any timestamp: the
\* component is mounted at some clock reading and the timestamps a callback
\* receives are unrelated to it.
InitAnyTime ==
  /\ \E t \in 0..(MaxTime - SettleDuration) : Mounted(t, SettleDuration)
  /\ SiteInit

NextAnyTime ==
  \/ OnLoad
  \/ ImgError
  \/ HandleMouseEnter
  \/ HandleMouseLeave
  \/ TickAnyTime
  \/ Destroy

SpecAnyTime == InitAnyTime /\ [][NextAnyTime]_vars

\* ------------------------------------------ an unusable settleDuration
\* The settleDuration values tried that give no duration: zero, the largest
\* value that is not positive.
InvalidDurations == {0}

\* The component mounted with such a settleDuration.
InitConfig == (\E d \in InvalidDurations : Mounted(0, d)) /\ SiteInit

SpecConfig == InitConfig /\ [][Next]_vars

\* ------------------------------------------------------- building the grid
\* Largest width and height of the rasters tried size by size.
MaxWidth == 12
MaxHeight == 16

\* The channel and alpha values the sampled pixels take.
SampleChannels == {0, 127, 128, 255}
SampleAlphas == {0, 127, 128, 255}

SamplePixels ==
  {Px(r, g, b, a) : r \in SampleChannels, g \in SampleChannels, b \in {0, 255},
                    a \in SampleAlphas}

\* A raster of width w and height h whose sampled pixels are all p.
Uniform(w, h, p) ==
  [width |-> w, height |-> h, pixels |-> [k \in 1..(Cols(w) * Rows(h)) |-> p]]

\* Fully transparent rasters of every size up to MaxWidth x MaxHeight, the
\* 800 x 1000 raster, and the two-cell rasters of every pair of sampled pixels.
Rasters ==
  {Uniform(w, h, Px(0, 0, 0, 0)) : w \in 1..MaxWidth, h \in 1..MaxHeight}
    \cup {Uniform(800, 1000, Px(0, 0, 0, 0))}
    \cup {[width |-> 2 * Resolution, height |-> 2 * Resolution, pixels |-> <<p, q>>] :
            p \in SamplePixels, q \in SamplePixels}

\* The component mounted on any of these rasters.
InitBuild == (\E img \in Rasters : MountedOn(0, SettleDuration, img)) /\ SiteInit

NextBuild ==
  \/ OnLoad
  \/ HandleMouseEnter
  \/ HandleMouseLeave

SpecBuild == InitBuild /\ [][NextBuild]_vars

\* ------------------------------------------------ runs on a loaded grid
\* Longest grid the shuffle is run on.
MaxCells == 4

\* Every glyph grid of one row and at most MaxCells cells.
Grids == UNION {[1..n -> {CharSet[k] : k \in 1..Len(CharSet)}] : n \in 1..MaxCells}

\* A pixel that the glyph loop maps to c: transparent for a space, an opaque
\* gray otherwise.
PixelOf(c) ==
  IF c = " " THEN Px(0, 0, 0, 0)
  ELSE CHOOSE p \in {Px(v, v, v, 255) : v \in 0..255} : Glyph(p) = c

\* A raster of one grid row that img.onload maps to grid g.
ImageOf(g) ==
  [width |-> Resolution * Len(g), height |-> 2 * Resolution,
   pixels |-> [k \in 1..Len(g) |-> PixelOf(g[k])]]

\* A mounted component whose image has loaded and was mapped to grid g.
LoadedWith(g) ==
  /\ now = 0
  /\ settleDuration = SettleDuration
  /\ src = ImageOf(g)
  /\ imgSrc = src
  /\ windowDims = Dims(imgSrc.width, imgSrc.height)
  /\ asciiCanvasSize = RenderDims(windowDims)
  /\ loadPending = FALSE
  /\ imageLoaded = TRUE
  /\ isHovering = FALSE
  /\ destroyed = FALSE
  /\ animationFrame = NULL
  /\ asciiCols = Cols(imgSrc.width)
  /\ asciiRows = Rows(imgSrc.height)
  /\ asciiChars = BuildAsciiChars(imgSrc)
  /\ asciiCanvas = RenderAsciiToCanvas(asciiChars, asciiCols, asciiRows)
  /\ asciiDataUrl = ToDataURL(asciiCanvas)
  /\ displayedAsciiUrl = EmptyUrl
  /\ settledIndices = {}
  /\ rafQueue = {}
  /\ lastEvent = [op |-> "load", result |-> "", live |-> FALSE,
                  settledBefore |-> 0, at |-> 0, again |-> FALSE]

\* The shuffle on every grid: hover-enter and hover-exit alone.
InitShuffle == (\E g \in Grids : LoadedWith(g)) /\ SiteInit

NextShuffle ==
  \/ HandleMouseEnter
  \/ HandleMouseLeave

SpecShuffle == InitShuffle /\ [][NextShuffle]_vars

\* The grids of at most two cells of which at most one is not blank.
LiveGrids == {g \in Grids : Len(g) <= 2 /\ Len(NonBlankIndices(g)) <= 1}

\* A loaded component under a host that runs every pending frame callback in
\* the end and whose clock keeps advancing.
InitLive == (\E g \in LiveGrids : LoadedWith(g)) /\ SiteInit

NextLive ==
  \/ HandleMouseEnter
  \/ HandleMouseLeave
  \/ Tick
  \/ Destroy
  \/ AdvanceClock

SpecLive == InitLive /\ [][NextLive]_vars /\ WF_vars(Tick) /\ WF_vars(AdvanceClock)

\* A loaded component whose frames may fail to render.
NextFail ==
  \/ HandleMouseEnter
  \/ HandleMouseLeave
  \/ Tick
  \/ TickNoContext
  \/ TickThrows
  \/ Destroy
  \/ AdvanceClock

SpecFail == InitLive /\ [][NextFail]_vars

\* Another AsciiImage instance on the same page finishes loading its image:
\* its img.onload writes that image's size to the window globals.
OtherInstanceLoad ==
  /\ \E img \in Images : windowDims' = Dims(img.width, img.height)
  /\ lastEvent' = Event("other", "", now)
  /\ UNCHANGED <<now, loadPending, imageLoaded, isHovering, destroyed, animationFrame,
                 asciiChars, asciiCols, asciiRows, asciiDataUrl, displayedAsciiUrl,
                 asciiCanvas, settledIndices, rafQueue, propVars, asciiCanvasSize,
                 siteVars>>

\* A loaded component beside other instances.
NextMulti ==
  \/ HandleMouseEnter
  \/ HandleMouseLeave
  \/ Tick
  \/ Destroy
  \/ AdvanceClock
  \/ OtherInstanceLoad

SpecMulti == InitLive /\ [][NextMulti]_vars

\* The parent passes a new src prop.  The template's original <img {src}> is
\* bound to it; nothing in the script runs: generateAscii read src once, in
\* onMount.
SrcChange ==
  /\ ~destroyed
  /\ src' \in Images \ {src}
  /\ lastEvent' = Event("src", "", now)
  /\ UNCHANGED <<now, loadPending, imageLoaded, isHovering, destroyed, animationFrame,
                 asciiChars, asciiCols, asciiRows, asciiDataUrl, displayedAsciiUrl,
                 asciiCanvas, settledIndices, rafQueue, settleDuration, imgSrc,
                 windowDims, asciiCanvasSize, siteVars>>

\* A loaded component whose src prop may change.
NextSrc ==
  \/ HandleMouseEnter
  \/ HandleMouseLeave
  \/ Tick
  \/ Destroy
  \/ AdvanceClock
  \/ SrcChange

SpecSrc == InitLive /\ [][NextSrc]_vars

\* ------------------------------------------------------------ /api/checkout
\* Requests served by the checkout endpoint in one run of the model.
MaxRequests == 3

\* The JSON bodies posted: a field that is absent (or empty, or 0) reads as
\* "" or 0, which the handler's !x tests treat alike.
Bodies ==
  [productId : {"", "print-1"}, title : {"", "Print"}, price : {0, 25},
   image : {"", "https://cdn/print.jpg"}]

\* if (!productId || !title || !price)
MissingFields(body) == body.productId = "" \/ body.title = "" \/ body.price = 0

\* What the try block does with a body: it throws error(400, ...) on a
\* missing field, else it asks Stripe for a session, which is created
\* (stripeOk) or rejected with a thrown provider error.
TryCheckout(body, stripeOk) ==
  IF MissingFields(body) THEN [threw |-> TRUE, status |-> 400, created |-> 0]
  ELSE IF stripeOk THEN [threw |-> FALSE, status |-> 200, created |-> 1]
  ELSE [threw |-> TRUE, status |-> 402, created |-> 0]

\* catch (err) { throw error(500, ...) }: whatever was thrown inside the try
\* block, the error(400) included, leaves the handler as a 500.
CatchCheckout(outcome) == IF outcome.threw THEN 500 ELSE outcome.status

\* The endpoint after serving one request with this body.
Served(body, stripeOk) ==
  LET outcome == TryCheckout(body, stripeOk)
  IN  [sessions |-> checkout.sessions + outcome.created,
       requests |-> checkout.requests + 1,
       status |-> CatchCheckout(outcome),
       created |-> outcome.created,
       body |-> body]

\* POST /api/checkout
CheckoutPOST ==
  /\ checkout.requests < MaxRequests
  /\ \E body \in Bodies, stripeOk \in BOOLEAN : checkout' = Served(body, stripeOk)
  /\ UNCHANGED <<asciiVars, webhook, productPage, gallery>>

\* The site with a loaded AsciiImage at rest.
InitSite == LoadedWith(<<"@">>) /\ SiteInit

NextCheckout == CheckoutPOST

SpecCheckout == InitSite /\ [][NextCheckout]_vars

\* ------------------------------------------------------ /api/webhooks/stripe
\* Webhook deliveries received in one run of the model.
MaxDeliveries == 3

\* The stripe-signature header of a delivery: absent, present but not a valid
\* signature of the body, or valid.
Signatures == {"missing", "bad", "good"}

EventTypes ==
  {"checkout.session.completed", "payment_intent.payment_failed", "charge.succeeded"}

\* fullSession.customer_details?.email of each checkout session.
CustomerEmail(s) == IF s = "cs_1" THEN "buyer@example.com" ELSE ""

\* stripe.webhooks.constructEvent returns the event for a valid signature
\* and throws for any other.
VerifySignatureSkipped(sig) == TRUE

VerifySignature(sig) == sig = "good"

\* handleCheckoutCompleted(session): the session is retrieved, then the
\* customer confirmation and the admin notification are sent, in that order;
\* a failing call throws and the rest is skipped.
HandleCheckoutCompleted(w, s, retrieveOk, customerOk, adminOk) ==
  LET r1 == [w EXCEPT !.retrieved[s] = @ + 1]
      r2 == [r1 EXCEPT !.customerEmails[s] = @ + 1]
      r3 == [r2 EXCEPT !.adminEmails[s] = @ + 1]
  IN  IF ~retrieveOk THEN [state |-> r1, threw |-> TRUE]
      ELSE IF CustomerEmail(s) = "" THEN [state |-> r1, threw |-> FALSE]
      ELSE IF ~customerOk THEN [state |-> r1, threw |-> TRUE]
      ELSE IF ~adminOk THEN [state |-> r2, threw |-> TRUE]
      ELSE [state |-> r3, threw |-> FALSE]

\* POST /api/webhooks/stripe
WebhookPOST ==
  /\ webhook.deliveries < MaxDeliveries
  /\ \E sig \in Signatures, type \in EventTypes, s \in Sessions,
        retrieveOk \in BOOLEAN, customerOk \in BOOLEAN, adminOk \in BOOLEAN :
       LET received == [webhook EXCEPT !.deliveries = @ + 1,
                          !.last = [signature |-> sig, type |-> type, session |-> s]]
           handled == HandleCheckoutCompleted(received, s, retrieveOk, customerOk, adminOk)
       IN  webhook' =
             IF sig = "missing" THEN [received EXCEPT !.status = 400]
             ELSE IF ~VerifySignature(sig) THEN [received EXCEPT !.status = 400]
             ELSE IF type # "checkout.session.completed"
               THEN [received EXCEPT !.status = 200]
             ELSE [handled.state EXCEPT !.status = IF handled.threw THEN 500 ELSE 200]
  /\ UNCHANGED <<asciiVars, checkout, productPage, gallery>>

NextWebhook == WebhookPOST

SpecWebhook == InitSite /\ [][NextWebhook]_vars

\* ------------------------------------------------------------ /shop/[slug]
\* Clicks on the Buy button in one run of the model.
MaxClicks == 5

\* disabled={!data.product.inStock || isLoading}
BuyDisabledStockOnly(page) == ~page.product.inStock

BuyDisabled(page) == ~page.product.inStock \/ page.isLoading

\* checkoutData; the first image's URL, which every product here has.
CheckoutData(p) ==
  [productId |-> p.slug, title |-> p.title, price |-> p.price,
   image |-> "https://cdn/print.jpg"]

\* A click on the Buy button, which the browser delivers only to an enabled
\* button: handleCheckout up to its await fetch(...).
HandleCheckout ==
  /\ productPage.sent < MaxClicks
  /\ ~BuyDisabled(productPage)
  /\ productPage' = [productPage EXCEPT !.isLoading = TRUE, !.inFlight = @ + 1,
                                         !.sent = @ + 1]
  /\ UNCHANGED <<asciiVars, checkout, webhook, gallery>>

\* The endpoint answers the request: handleCheckout resumes, follows the url of
\* a created session (an error response carries none) and runs its finally.
FetchResolves ==
  /\ productPage.inFlight > 0
  /\ \E stripeOk \in BOOLEAN :
       LET response == Served(CheckoutData(productPage.product), stripeOk)
       IN  /\ checkout' = response
           /\ productPage' =
                [productPage EXCEPT !.isLoading = FALSE, !.inFlight = @ - 1,
                   !.location = IF response.status = 200 THEN "stripe" ELSE @]
  /\ UNCHANGED <<asciiVars, webhook, gallery>>

\* The request fails before an answer arrives: catch alerts, finally runs.
FetchRejects ==
  /\ productPage.inFlight > 0
  /\ productPage' = [productPage EXCEPT !.isLoading = FALSE, !.inFlight = @ - 1,
                                         !.alerts = @ + 1]
  /\ UNCHANGED <<asciiVars, checkout, webhook, gallery>>

InitPage ==
  /\ LoadedWith(<<"@">>)
  /\ CheckoutInit /\ WebhookInit /\ GalleryInit
  /\ \E p \in Products : productPage = PageOf(p)

NextPage == HandleCheckout \/ FetchResolves \/ FetchRejects

SpecPage == InitPage /\ [][NextPage]_vars

\* ------------------------------------------------------------ GalleryModal
\* Images of the largest gallery opened.
MaxImages == 3

\* clientX of the touches: 50 apart is the swipe threshold itself.
TouchXs == {0, 50, 101}

Keys == {"Escape", "ArrowRight", "ArrowLeft", "Enter"}

\* JavaScript's a % b for b > 0: the result has the sign of a.
JsRem(a, b) == IF a >= 0 THEN a % b ELSE -((-a) % b)

\* next(): index = (index + 1) % images.length
next(g) ==
  [g EXCEPT !.index = JsRem(g.index + 1, g.length),
            !.last = "next", !.before = g.index, !.flip = ~g.flip]

\* prev(): index = (index - 1 + images.length) % images.length
prevNoWrap(g) ==
  [g EXCEPT !.index = JsRem(g.index - 1, g.length),
            !.last = "prev", !.before = g.index, !.flip = ~g.flip]

prev(g) ==
  [g EXCEPT !.index = JsRem(g.index - 1 + g.length, g.length),
            !.last = "prev", !.before = g.index, !.flip = ~g.flip]

\* The arrow buttons, rendered when there is more than one image.
ClickNext ==
  /\ ~gallery.closed
  /\ gallery.length > 1
  /\ gallery' = next(gallery)
  /\ UNCHANGED <<asciiVars, checkout, webhook, productPage>>

ClickPrev ==
  /\ ~gallery.closed
  /\ gallery.length > 1
  /\ gallery' = prev(gallery)
  /\ UNCHANGED <<asciiVars, checkout, webhook, productPage>>

\* handleKeydown on the window; onClose makes the parent unmount the modal.
HandleKeydown ==
  /\ ~gallery.closed
  /\ \E key \in Keys :
       gallery' = IF key = "Escape" THEN [gallery EXCEPT !.closed = TRUE]
                  ELSE IF key = "ArrowRight" THEN next(gallery)
                  ELSE IF key = "ArrowLeft" THEN prev(gallery)
                  ELSE gallery
  /\ UNCHANGED <<asciiVars, checkout, webhook, productPage>>

HandleTouchStart ==
  /\ ~gallery.closed
  /\ \E x \in TouchXs :
       gallery' = [gallery EXCEPT !.isDragging = TRUE, !.startX = x, !.offsetX = 0]
  /\ UNCHANGED <<asciiVars, checkout, webhook, productPage>>

HandleTouchMove ==
  /\ ~gallery.closed
  /\ \E x \in TouchXs :
       gallery' = IF gallery.isDragging
                    THEN [gallery EXCEPT !.offsetX = x - gallery.startX]
                    ELSE gallery
  /\ UNCHANGED <<asciiVars, checkout, webhook, productPage>>

SwipeThreshold == 50

HandleTouchEnd ==
  /\ ~gallery.closed
  /\ LET released == [gallery EXCEPT !.isDragging = FALSE]
          moved == IF gallery.offsetX < -SwipeThreshold THEN next(released)
                   ELSE IF gallery.offsetX > SwipeThreshold THEN prev(released)
                   ELSE released
      IN  gallery' = [moved EXCEPT !.offsetX = 0]
  /\ UNCHANGED <<asciiVars, checkout, webhook, productPage>>

InitGallery ==
  /\ LoadedWith(<<"@">>)
  /\ CheckoutInit /\ WebhookInit /\ PageInit
  /\ \E n \in 1..MaxImages : \E i \in 0..(n - 1) : gallery = GalleryOf(n, i)

NextGallery ==
  \/ ClickNext
  \/ ClickPrev
  \/ HandleKeydown
  \/ HandleTouchStart
  \/ HandleTouchMove
  \/ HandleTouchEnd

SpecGallery == InitGallery /\ [][NextGallery]_vars

\* ================================================================ claims
\* The non-blank cell indices of the grid, as a set.
NonBlankSet(chars) == {i \in 0..(Len(chars) - 1) : chars[i + 1] # " "}

\* The first k entries of a schedule, as a set.
FirstOf(schedule, k) == {schedule[m] : m \in 1..k}

\* floor(progress(t) x n) with progress(t) = min(t / settleDuration, 1).
ProgressCount(t, n) ==
  ((IF t < SettleDuration THEN t ELSE SettleDuration) * n) \div SettleDuration

\* C1: in every reachable state at most one frame callback is pending, and it
\* is the one animationFrame names, so a hover-enter never leaves the previous
\* run's callback beside the new run's.
C1_OnePendingCallback ==
  /\ Cardinality(rafQueue) <= 1
  /\ \A e \in rafQueue : e.id = animationFrame

\* A hover-enter that met a pending callback of the previous run and started
\* a new run.
C1_Witness ==
  /\ lastEvent.op = "enter" /\ lastEvent.result = "start" /\ lastEvent.live
  /\ Cardinality(rafQueue) = 1

\* C2: after a hover-exit no frame callback is pending, and while the pointer
\* is outside no tick runs and the displayed frame does not change.
C2_HoverExitStopsFrames ==
  /\ [](lastEvent.op = "leave" => rafQueue = {})
  /\ [][~isHovering =>
          /\ lastEvent'.op # "tick"
          /\ displayedAsciiUrl' = displayedAsciiUrl]_vars

\* A hover-exit that met a pending callback of a run with settled cells.
C2_Witness ==
  /\ lastEvent.op = "leave" /\ lastEvent.live /\ lastEvent.settledBefore > 0
  /\ rafQueue = {}

\* C3: once the component is destroyed no frame callback is pending; when the
\* image had loaded, nothing after teardown runs a tick or draws on the ascii
\* canvas.
C3_TeardownCancelsFrame ==
  /\ [](destroyed => rafQueue = {})
  /\ [][(destroyed /\ imageLoaded) =>
          /\ lastEvent'.op # "tick"
          /\ asciiCanvas' = asciiCanvas
          /\ displayedAsciiUrl' = displayedAsciiUrl]_vars

\* A teardown that met a pending callback of a running animation.
C3_Witness ==
  /\ lastEvent.op = "destroy" /\ lastEvent.live /\ isHovering
  /\ rafQueue = {}

\* C4: stopAnimation is idempotent.  In every reachable state a stop leaves no
\* pending callback and a second stop changes nothing more; a hover-exit that
\* follows a hover-exit leaves the component exactly as it was.
C4_CancelIdempotent ==
  /\ [](LET s1 == StopAnimation(animationFrame, rafQueue)
            s2 == StopAnimation(s1.animationFrame, s1.rafQueue)
        IN  s1.rafQueue = {} /\ s2 = s1)
  /\ [][(lastEvent.op = "leave" /\ lastEvent'.op = "leave") =>
          UNCHANGED <<now, loadPending, imageLoaded, isHovering, destroyed,
                      animationFrame, asciiChars, asciiCols, asciiRows, asciiDataUrl,
                      displayedAsciiUrl, asciiCanvas, settledIndices, rafQueue,
                      propVars, windowDims, asciiCanvasSize>>]_vars

\* A second hover-exit in a row, after a run was cancelled, with nothing left
\* to cancel.
C4_Witness ==
  /\ lastEvent.op = "leave" /\ lastEvent.again /\ ~lastEvent.live
  /\ settledIndices # {}
  /\ animationFrame = NULL /\ rafQueue = {}

\* C5: a settled cell stays settled until the next run starts: every tick,
\* whatever timestamp it receives, leaves a settled set that contains the one
\* it found, and no other handler removes a cell.
C5_SettledOnlyGrows ==
  [][~(lastEvent'.op = "enter" /\ lastEvent'.result = "start") =>
        settledIndices \subseteq settledIndices']_vars

\* A tick that follows a tick of the same run and whose timestamp asks for
\* fewer settled cells than the run already has.
C5_Witness ==
  /\ lastEvent.op = "tick" /\ lastEvent.again /\ lastEvent.result = "more"
  /\ lastEvent.settledBefore > 0
  /\ \E e \in rafQueue :
       ProgressCount(lastEvent.at - e.startTime, Len(e.indicesToSettle))
         < lastEvent.settledBefore

\* C6: after a tick that observed progress >= 1 every non-blank cell is
\* settled and the displayed frame is the final grid, cell for cell.
C6_CompletionShowsGrid ==
  (lastEvent.op = "tick" /\ lastEvent.result = "done") =>
     /\ settledIndices = NonBlankSet(asciiChars)
     /\ displayedAsciiUrl = ToDataURL(asciiChars)
     /\ asciiCanvas = asciiChars

\* A final tick that still had cells to settle on a grid with two glyphs.
C6_Witness ==
  /\ lastEvent.op = "tick" /\ lastEvent.result = "done"
  /\ lastEvent.settledBefore < Cardinality(settledIndices)
  /\ Cardinality(settledIndices) = 2

\* C7: while the pointer stays on a live component, a pending run leads to a
\* tick that observes progress >= 1 and leaves no frame callback pending.
C7_RunCompletes ==
  (isHovering /\ ~destroyed /\ rafQueue # {})
    ~> \/ ~isHovering
       \/ destroyed
       \/ (lastEvent.op = "tick" /\ lastEvent.result = "done" /\ rafQueue = {})

\* A run that came to its end with the pointer still on the component.
C7_Witness ==
  /\ lastEvent.op = "tick" /\ lastEvent.result = "done"
  /\ isHovering /\ ~destroyed /\ rafQueue = {}
  /\ Cardinality(settledIndices) = 1

\* C8: the schedule of every run lists each non-blank cell index of the grid
\* exactly once and no blank cell index.
C8_ScheduleIsPermutation ==
  \A e \in rafQueue :
    /\ Len(e.indicesToSettle) = Cardinality(NonBlankSet(asciiChars))
    /\ {e.indicesToSettle[k] : k \in 1..Len(e.indicesToSettle)} = NonBlankSet(asciiChars)

\* A schedule of three or more cells, out of index order, on a grid that has a
\* blank cell.
C8_Witness ==
  \E e \in rafQueue :
    /\ Len(e.indicesToSettle) >= 3
    /\ e.indicesToSettle[1] > e.indicesToSettle[2]
    /\ NonBlankSet(asciiChars) # 0..(Len(asciiChars) - 1)

\* C9: after a tick at elapsed time t the settled cells are the first
\* floor(min(t / settleDuration, 1) x n) entries of the run's schedule, and
\* that many.
C9_SettledIsSchedulePrefix ==
  [][lastEvent'.op = "tick" =>
       \E e \in rafQueue :
         LET n == Len(e.indicesToSettle)
             t == lastEvent'.at - e.startTime
         IN  /\ Cardinality(settledIndices') = ProgressCount(t, n)
             /\ settledIndices' = FirstOf(e.indicesToSettle, ProgressCount(t, n))]_vars

\* A tick that settled the first of two cells and goes on.
C9_Witness ==
  /\ lastEvent.op = "tick" /\ lastEvent.result = "more"
  /\ lastEvent.settledBefore = 0
  /\ Cardinality(settledIndices) = 1

\* C10: a run never resumes an earlier one: right after a hover-enter the
\* settled set is empty and the run's start time is the time of that
\* hover-enter, and the settled cells of a pending run never exceed what the
\* time since its own start accounts for.
C10_NoResume ==
  \A e \in rafQueue :
    /\ e.startTime <= now
    /\ lastEvent.op = "enter" => (e.startTime = now /\ settledIndices = {})
    /\ settledIndices \subseteq
         FirstOf(e.indicesToSettle,
                 ProgressCount(now - e.startTime, Len(e.indicesToSettle)))

\* A hover-enter, later than the first, that found no callback pending and a
\* half-settled grid left by the run the hover-exit had cancelled.
C10_Witness ==
  /\ lastEvent.op = "enter" /\ lastEvent.result = "start" /\ ~lastEvent.live
  /\ lastEvent.settledBefore = 1
  /\ settledIndices = {}
  /\ \E e \in rafQueue : e.startTime = now /\ now > 0

\* C11: leaving the Animating state discards the run's state, so right after a
\* hover-enter on a loaded component the overlay holds no frame of an earlier
\* run: it shows the final grid until the new run's first tick.
C11_OverlayFreshOnEnter ==
  (lastEvent.op = "enter" /\ imageLoaded) => Overlay = asciiDataUrl

\* C12: the hover state at the moment the load completes decides what follows:
\* with the pointer on the component a run starts at once (a frame callback is
\* pending), with the pointer gone again no run starts and no overlay shows.
C12_LoadDecidesByHover ==
  (lastEvent.op = "load" /\ ~destroyed /\ Len(asciiChars) > 0) =>
     IF isHovering THEN rafQueue # {}
     ELSE rafQueue = {} /\ ~OverlayShown

C14_FailedLoadStaysInert ==
  /\ []((~loadPending /\ ~imageLoaded) =>
           /\ ~OverlayShown /\ OriginalVisible
           /\ rafQueue = {} /\ animationFrame = NULL
           /\ settledIndices = {} /\ displayedAsciiUrl = EmptyUrl
           /\ asciiChars = << >> /\ asciiDataUrl = EmptyUrl)
  /\ [][(~loadPending /\ ~imageLoaded) =>
          /\ ~loadPending' /\ ~imageLoaded'
          /\ lastEvent'.op # "tick"
          /\ lastEvent'.op = "enter" => lastEvent'.result = "unloaded"]_vars

\* The pointer entered, at a later time, a component whose image had failed.
C14_Witness ==
  /\ ~loadPending /\ ~imageLoaded
  /\ lastEvent.op = "enter" /\ isHovering /\ now > 0

\* C15: a component configured with a settleDuration that is not positive is
\* rejected when it is configured: it never builds a grid and never starts an
\* animation.
C15_InvalidConfigRejected ==
  settleDuration <= 0 =>
     /\ ~imageLoaded /\ asciiChars = << >>
     /\ rafQueue = {}

\* C16: a tick whose rendering fails ends the run: it requests no further
\* frame callback and leaves none pending.
C16_RenderFailureStopsRun ==
  (lastEvent.op = "tick" /\ lastEvent.result \in {"nocontext", "throw"}) =>
     rafQueue = {}

\* C17: instances are independent: whatever other instances do, every frame
\* of this instance is rendered on a surface that has the size of this
\* instance's own image.
C17_OwnSurfaceSize ==
  imageLoaded => asciiCanvasSize = Dims(imgSrc.width, imgSrc.height)

\* C18: after the src prop changed the image is loaded again and the grid is
\* rebuilt, so every run that starts animates the grid of the current src.
C18_RunUsesCurrentSrc ==
  (lastEvent.op = "enter" /\ lastEvent.result = "start") =>
     asciiChars = BuildAsciiChars(src)

\* C19: a run on a grid whose cells are all spaces completes at once: a tick
\* of such a run leaves no frame callback pending, whatever time has passed,
\* and the frame it drew is the all-space grid.
C19_BlankGridCompletesAtOnce ==
  (lastEvent.op = "tick" /\ Len(asciiChars) > 0 /\ NonBlankSet(asciiChars) = {}) =>
     /\ rafQueue = {}
     /\ asciiCanvas = asciiChars

\* The scramble alphabet: the glyphs of the ramp and the punctuation set,
\* whitespace excluded.
ScrambleAlphabet ==
  {c \in {CharSet[k] : k \in 1..Len(CharSet)} \cup
          {Punctuation[k] : k \in 1..Len(Punctuation)} : ~IsWhitespace(c)}

\* C20: in the frame a tick rendered, a cell that is blank in the grid shows
\* a space, a settled cell shows its glyph, and every other cell shows a
\* character of the scramble alphabet, which is never whitespace.
C20_FrameCells ==
  lastEvent.op = "tick" =>
     /\ Len(asciiCanvas) = Len(asciiChars)
     /\ \A k \in 1..Len(asciiChars) :
          IF asciiChars[k] = " " THEN asciiCanvas[k] = " "
          ELSE IF (k - 1) \in settledIndices THEN asciiCanvas[k] = asciiChars[k]
          ELSE asciiCanvas[k] \in ScrambleAlphabet /\ ~IsWhitespace(asciiCanvas[k])

\* A frame of the three-cell grid with its blank cell, one settled cell and
\* one cell still scrambled, showing a punctuation character.
C20_Witness ==
  /\ lastEvent.op = "tick" /\ lastEvent.result = "more"
  /\ Len(asciiChars) = 3 /\ Cardinality(NonBlankSet(asciiChars)) = 2
  /\ Cardinality(settledIndices) = 1
  /\ \E k \in 1..3 : (k - 1) \notin settledIndices /\ asciiCanvas[k] = "#"

C22_TransparentIsBlank ==
  imageLoaded =>
     \A k \in 1..Len(asciiChars) :
        imgSrc.pixels[k].a < 128 =>
           /\ asciiChars[k] = " "
           /\ \A e \in rafQueue :
                \A m \in 1..Len(e.indicesToSettle) : e.indicesToSettle[m] # k - 1

\* A run on the grid of a white pixel of alpha 127 beside a pixel of alpha 128.
C22_Witness ==
  /\ imageLoaded /\ rafQueue # {}
  /\ Len(asciiChars) = 2
  /\ imgSrc.pixels[1] = Px(255, 255, 255, 127)
  /\ imgSrc.pixels[2] = Px(128, 128, 255, 128)
  /\ \E e \in rafQueue : e.indicesToSettle = <<1>>

\* 1000 x 255 x the perceived brightness (0.299 R + 0.587 G + 0.114 B) / 255.
Brightness(p) == 299 * p.r + 587 * p.g + 114 * p.b

\* The position of glyph c in the ramp, counted from 0.
RampIndex(c) == CHOOSE i \in 0..(Len(CharSet) - 1) : CharSet[i + 1] = c

C25_MissingFieldsGet400 ==
  (checkout.requests > 0 /\ MissingFields(checkout.body)) =>
    (checkout.status = 400 /\ checkout.created = 0)

\* C26: the webhook handler processes an event only after its signature is
\* verified: a delivery without the stripe-signature header, or whose
\* signature fails verification, is answered 400, retrieves no session and
\* sends no email.
C26_UnverifiedRejected ==
  [][(webhook'.deliveries # webhook.deliveries /\ webhook'.last.signature # "good") =>
       /\ webhook'.status = 400
       /\ webhook'.retrieved = webhook.retrieved
       /\ webhook'.customerEmails = webhook.customerEmails
       /\ webhook'.adminEmails = webhook.adminEmails]_vars

C26_Witness ==
  /\ webhook.last.signature = "bad"
  /\ webhook.last.type = "checkout.session.completed"
  /\ webhook.last.session = "cs_1"
  /\ webhook.status = 400
  /\ webhook.customerEmails["cs_1"] = 1
  /\ webhook.retrieved["cs_1"] = 1

\* C27: across any number of deliveries of the same checkout.session.completed
\* event, a redelivery after a 500 included, the customer confirmation email
\* of a checkout session is sent at most once.
C27_ConfirmationAtMostOnce ==
  \A s \in Sessions : webhook.customerEmails[s] <= 1

\* C28: on the product page at most one checkout request is in flight at any
\* time: the Buy button is disabled from the start of handleCheckout until
\* the attempt has ended, and isLoading is false again once it has.
C28_OneRequestInFlight ==
  /\ productPage.inFlight <= 1
  /\ productPage.inFlight = 1 => BuyDisabled(productPage)
  /\ productPage.inFlight = 0 => ~productPage.isLoading

C28_Witness ==
  /\ productPage.sent = 3
  /\ productPage.alerts = 1
  /\ productPage.inFlight = 1
  /\ productPage.isLoading
  /\ checkout.status = 500

\* C29: in a GalleryModal with n >= 1 images opened on an index in 0..n-1,
\* next sets the index to (index + 1) mod n and prev to (index - 1) mod n,
\* whichever of buttons, arrow keys and swipes triggers them; the index stays
\* in 0..n-1, and a prev that follows a next returns to the index the next
\* started from.
C29_NavigationWraps ==
  /\ [](gallery.index \in 0..(gallery.length - 1))
  /\ [][(gallery'.flip # gallery.flip /\ gallery'.last = "next") =>
           gallery'.index = (gallery.index + 1) % gallery.length]_vars
  /\ [][(gallery'.flip # gallery.flip /\ gallery'.last = "prev") =>
           gallery'.index = (gallery.index - 1) % gallery.length]_vars
  /\ [][(gallery'.flip # gallery.flip /\ gallery.last = "next"
           /\ gallery'.last = "prev") =>
           gallery'.index = gallery.before]_vars

C29_Witness ==
  /\ gallery.length = 3
  /\ gallery.last = "prev"
  /\ gallery.before = 0
  /\ gallery.index = 2
  /\ gallery.startX = 0
  /\ ~gallery.isDragging

\* C30: after teardown no callback of the instance runs: neither a frame
\* callback nor an image-load completion that was still outstanding, so a
\* late load never writes to the canvases or changes instance state.
C30_NoCallbackAfterTeardown ==
  destroyed => lastEvent.op \notin {"load", "tick"}

====
